---- MODULE Spec2Model ----
(***************************************************************************)
(* Model of the sample-to-frame transform adapter of steamaudio            *)
(* (src/src/transform.rs): transform(), Transform::next_frame,             *)
(* Transform::next, the Source attributes of Transform, and the iterative  *)
(* destructor of FrameData.                                                *)
(*                                                                         *)
(* Specifications of the module:                                           *)
(*   Spec      the adapter pulled sample by sample by one consumer;        *)
(*   SpecDrop  the destructor of a chain of frame nodes, step by step.     *)
(*   SpecChain two stacked adapters over one upstream;                     *)
(*   SpecNodes next_frame on the reference-counted frame nodes;            *)
(*   SpecThreads, SpecThreadsFair  the audio thread and the update thread  *)
(*             of the plugin (src/bevy/src/lib.rs) with their Mutexes.     *)
(***************************************************************************)
EXTENDS Integers, Sequences, FiniteSets, TLC

(***************************************************************************)
(* Bounds of the model.                                                    *)
(***************************************************************************)
\* longest upstream sample sequence
MaxLen == 8
\* largest frame length (frame_size argument of transform)
MaxFrameLen == 3
\* largest channel count, upstream and output
MaxCh == 2
\* largest value an upstream reports from current_frame_len(); 0 stands for None
MaxHint == 2
\* next() calls made by the consumer
MaxNexts == 10
\* longest chain of Data nodes handed to the destructor
MaxChain == 4

\* the silent sample 0.0
Silence == 0

VARIABLES
    \* ---- the upstream source and the arguments of transform() ----
    S,                  \* the samples the upstream held at construction
    input,              \* the samples the upstream has not delivered yet
    inCh,               \* input.channels()
    inRate,             \* input.sample_rate()
    hintK,              \* current_frame_len() policy of the upstream (0: None)
    durKind,            \* total_duration() policy of the upstream
    output_channels,    \* argument of transform()
    frame_size,         \* argument of transform(): the frame length
    \* ---- struct Transform ----
    phase,              \* "new" | "live" | "panicked"
    input_buffer,
    output_buffer,
    current_frame,      \* the node current_frame points at, with its next edge
    position_in_frame,
    totalDuration,      \* the field total_duration
    \* ---- observations ----
    out,                \* the samples next() has returned
    lastResult,         \* "none yet" | "Some" | "None": what the last next() returned
    nexts,              \* number of next() calls made
    calls,              \* number of invocations of the callback
    callsNew,           \* invocations of the callback made by transform()
    pulls,              \* number of samples pulled from upstream
    pullsNew,           \* samples pulled from upstream by transform()
    frames,             \* number of Data frames produced
    cbInput,            \* the input buffer as the callback saw it last
    cbPulled,           \* the samples pulled for the last materialization
    cbLog,              \* for each callback invocation, the input buffer it saw
    \* ---- the destructor of a frame chain ----
    chainLen,           \* number of Data nodes of the chain
    heap,               \* the frame nodes: liveness, variant, next edge, strong count
    dstack,             \* activations of Arc::drop and of FrameData's destructor
    dsteps,             \* steps the teardown has taken
    maxDepth,           \* deepest nesting of FrameData destructors so far
    sharedAt,           \* the node another holder references too (0: none)
    poisonedAt,         \* the node whose next edge has a poisoned Mutex (0: none)
    srcDropped,         \* number of upstream sources dropped with an Input node
    \* ---- two stacked adapters ----
    chainS,             \* the samples the plain upstream held at the start
    chainCh,            \* channel count of the upstream and of both adapters
    chainLens,          \* the frame lengths of the inner and the outer adapter
    chain,              \* the outermost source built so far
    chainDepth,         \* number of adapters stacked on the upstream
    chainOut,           \* the samples next() on the outer adapter has returned
    chainLast,          \* what its last next() returned
    chainNexts,         \* number of next() calls on the outer adapter
    \* ---- next_frame on the frame nodes of one adapter ----
    cur,                \* the node current_frame points at (0: adapter dropped)
    nfpc,               \* where next_frame stands
    nfNew,              \* the node the local next_frame points at (0: none)
    localSrc,           \* the local `input` of next_frame holds the upstream
    takeLog,            \* the Input nodes the upstream was taken out of
    framesDone,         \* number of next_frame calls completed
    \* ---- the audio thread and the update thread of the plugin ----
    lockOwner,          \* for each Mutex: "free", "audio" or "update"
    param,              \* the value behind each parameter Mutex, in two halves
    completed,          \* for each parameter, the number of completed writes
    aprog,              \* the statements the audio thread has left in this frame
    areg,               \* the half of a value the audio thread has copied so far
    lastRead,           \* for each parameter, the value the callback read last
    uprog,              \* the statements the update thread has left in this tick
    ticks,              \* update ticks started
    speed_reset         \* DopplerEffect::speed_reset

adapterVars == <<S, input, inCh, inRate, hintK, durKind, output_channels,
                 frame_size, phase, input_buffer, output_buffer, current_frame,
                 position_in_frame, totalDuration, out, lastResult, nexts, calls, callsNew,
                 pulls, pullsNew, frames, cbInput, cbPulled, cbLog>>
dropVars == <<chainLen, heap, dstack, dsteps, maxDepth, sharedAt,
             poisonedAt, srcDropped>>
chainVars == <<chainS, chainCh, chainLens, chain, chainDepth, chainOut,
               chainLast, chainNexts>>
nodeVars == <<cur, nfpc, nfNew, localSrc, takeLog, framesDone>>
threadVars == <<lockOwner, param, completed, aprog, areg, lastRead, uprog,
                ticks, speed_reset>>
vars == <<adapterVars, dropVars, chainVars, nodeVars, threadVars>>

Min(a, b) == IF a < b THEN a ELSE b

(***************************************************************************)
(* Buffers: vec![vec![0.0; frame_size]; channels], rows are channels.      *)
(***************************************************************************)
NewBuffer(ch, len) == [c \in 0..(ch - 1) |-> [i \in 0..(len - 1) |-> Silence]]

\* Buffer::channels() and Buffer::samples() of a buffer built by NewBuffer
BufChannels(buf) == Cardinality(DOMAIN buf)
BufSamples(buf) == Cardinality(DOMAIN buf[0])

(***************************************************************************)
(* The upstream per-sample stream.                                         *)
(***************************************************************************)
\* input.current_frame_len(): -1 stands for None
UpstreamHint(rest) == IF hintK = 0 THEN -1 ELSE Min(hintK, Len(rest))

\* input.total_duration(): -1 stands for None; an upstream of kind
\* "remaining" reports what it has left, so its report changes as it is
\* consumed
UpstreamDuration(rest) == IF durKind = "None" THEN -1 ELSE Len(rest)

\* the first n elements of s (Iterator::take on by_ref)
Take(s, n) == SubSeq(s, 1, Min(n, Len(s)))
DropN(s, n) == SubSeq(s, Min(n, Len(s)) + 1, Len(s))

(***************************************************************************)
(* The frame processing callback: an effect that copies the input frame    *)
(* to the output frame (channel c of the output from channel c mod C of    *)
(* the input), writing every sample of the output.                         *)
(***************************************************************************)
function(inb, outb) ==
    [c \in DOMAIN outb |-> [i \in DOMAIN outb[c] |-> inb[c % BufChannels(inb)][i]]]

(***************************************************************************)
(* Frame nodes.  A node is its variant with the fields of FrameData and    *)
(* the variant of the node its next edge points at ("none" for a node      *)
(* without a next edge).                                                   *)
(***************************************************************************)
DataNode(size, ch, rate, nxt) ==
    [kind |-> "Data", frame_size |-> size, channels |-> ch,
     sampling_rate |-> rate, next |-> nxt]
EndNode == [kind |-> "End", frame_size |-> 0, channels |-> 0,
            sampling_rate |-> 0, next |-> "none"]

(***************************************************************************)
(* The loop of next_frame that distributes the pulled values over the      *)
(* input buffer, one value per iteration, with its two counters.           *)
(***************************************************************************)
\* FillLoop with the two counters exchanged: the frame index runs first and
\* the channel advances when a row is full (a planar instead of an
\* interleaved reading of the upstream)
RECURSIVE FillLoopPlanar(_, _, _, _, _)
FillLoopPlanar(buf, values, channel, frame, channels) ==
    IF values = <<>>
    THEN [buf |-> buf, channel |-> channel, frame |-> frame]
    ELSE LET written == [buf EXCEPT ![channel][frame] = Head(values)]
         IN  IF frame + 1 = BufSamples(buf)
             THEN FillLoopPlanar(written, Tail(values), channel + 1, 0, channels)
             ELSE FillLoopPlanar(written, Tail(values), channel, frame + 1, channels)

RECURSIVE FillLoop(_, _, _, _, _)
FillLoop(buf, values, channel, frame, channels) ==
    IF values = <<>>
    THEN [buf |-> buf, channel |-> channel, frame |-> frame]
    ELSE LET written == [buf EXCEPT ![channel][frame] = Head(values)]
         IN  IF channel + 1 = channels
             THEN FillLoop(written, Tail(values), 0, frame + 1, channels)
             ELSE FillLoop(written, Tail(values), channel + 1, frame, channels)

\* TakeCount with the frame length alone as capacity (the channel count
\* left out of the product)
TakeCountPerChannel(hint, buf) ==
    LET capacity == BufSamples(buf)
    IN  Min(IF hint = -1 THEN capacity ELSE hint, capacity)

\* the argument of take(): min(hint or capacity, capacity)
TakeCount(hint, buf) ==
    LET capacity == BufSamples(buf) * BufChannels(buf)
    IN  Min(IF hint = -1 THEN capacity ELSE hint, capacity)

\* Materialize without the test `frame == 0`: a pull that completes no
\* sample-frame still builds a Data node
MaterializeKeepsEmpty(rest, buf) ==
    LET hint == UpstreamHint(rest)
    IN  IF hint = 0
        THEN [node |-> EndNode, rest |-> rest, buf |-> buf, pulled |-> <<>>]
        ELSE LET pulled == Take(rest, TakeCount(hint, buf))
                 left == DropN(rest, TakeCount(hint, buf))
                 filled == FillLoop(buf, pulled, 0, 0, inCh)
             IN  [node |-> DataNode(inCh * filled.frame, inCh, inRate, "Input"),
                  rest |-> left, buf |-> filled.buf, pulled |-> pulled]

(***************************************************************************)
(* The Frame::Input arm of next_frame: what materializing the Input node   *)
(* holding upstream `rest` makes of it, given input buffer `buf`.          *)
(***************************************************************************)
Materialize(rest, buf) ==
    LET hint == UpstreamHint(rest)
    IN  IF hint = 0
        THEN [node |-> EndNode, rest |-> rest, buf |-> buf, pulled |-> <<>>]
        ELSE LET pulled == Take(rest, TakeCount(hint, buf))
                 left == DropN(rest, TakeCount(hint, buf))
                 filled == FillLoop(buf, pulled, 0, 0, inCh)
             IN  [node |-> IF filled.frame = 0
                           THEN EndNode
                           ELSE DataNode(inCh * filled.frame, inCh, inRate, "Input"),
                  rest |-> left, buf |-> filled.buf, pulled |-> pulled]

(***************************************************************************)
(* Transform::next_frame.  The next edge of the current node is an Input   *)
(* node (materialized here, the callback run, the edge replaced) or an     *)
(* End node (followed as it is).                                           *)
(***************************************************************************)
next_frame ==
    /\ current_frame.kind = "Data"
    /\ IF current_frame.next = "Input"
       THEN LET m == Materialize(input, input_buffer)
            IN  /\ input' = m.rest
                /\ input_buffer' = m.buf
                /\ output_buffer' = function(m.buf, output_buffer)
                /\ current_frame' = m.node
                /\ calls' = calls + 1
                /\ pulls' = pulls + Len(m.pulled)
                /\ frames' = frames + (IF m.node.kind = "Data" THEN 1 ELSE 0)
                /\ cbInput' = m.buf
                /\ cbPulled' = m.pulled
                /\ cbLog' = Append(cbLog, m.buf)
       ELSE /\ current_frame' = EndNode
            /\ UNCHANGED <<input, input_buffer, output_buffer, calls, pulls,
                           frames, cbInput, cbPulled, cbLog>>
    /\ position_in_frame' = 0

(***************************************************************************)
(* Transform::next.  The Data arm reads output_buffer.data[p % channels]   *)
(* [p / channels]; an index outside the output buffer panics.              *)
(***************************************************************************)
nextData ==
    LET row == position_in_frame % current_frame.channels
        col == position_in_frame \div current_frame.channels
    IN  IF row \notin DOMAIN output_buffer \/ col \notin DOMAIN output_buffer[row]
        THEN /\ phase' = "panicked"
             /\ UNCHANGED <<input, input_buffer, output_buffer, current_frame,
                            position_in_frame, out, lastResult, calls, pulls,
                            frames, cbInput, cbPulled, cbLog>>
        ELSE /\ out' = Append(out, output_buffer[row][col])
             /\ lastResult' = "Some"
             /\ phase' = phase
             /\ IF position_in_frame + 1 >= current_frame.frame_size
                THEN next_frame
                ELSE /\ position_in_frame' = position_in_frame + 1
                     /\ UNCHANGED <<input, input_buffer, output_buffer,
                                    current_frame, calls, pulls, frames,
                                    cbInput, cbPulled, cbLog>>

\* nextEnd that runs the callback once more on every call made at the end
\* (a flush of the effect's tail)
nextEndFlushes ==
    /\ lastResult' = "None"
    /\ calls' = calls + 1
    /\ output_buffer' = function(input_buffer, output_buffer)
    /\ UNCHANGED <<phase, input, input_buffer, current_frame,
                   position_in_frame, out, pulls, frames, cbInput,
                   cbPulled, cbLog>>

nextEnd ==
    /\ lastResult' = "None"
    /\ UNCHANGED <<phase, input, input_buffer, output_buffer, current_frame,
                   position_in_frame, out, calls, pulls, frames, cbInput,
                   cbPulled, cbLog>>

next ==
    /\ phase = "live"
    /\ nexts < MaxNexts
    /\ nexts' = nexts + 1
    /\ IF current_frame.kind = "Data" THEN nextData ELSE nextEnd
    /\ UNCHANGED <<S, inCh, inRate, hintK, durKind, output_channels,
                   frame_size, totalDuration, callsNew, pullsNew>>
    /\ UNCHANGED dropVars
    /\ UNCHANGED chainVars
    /\ UNCHANGED nodeVars
    /\ UNCHANGED threadVars

(***************************************************************************)
(* transform(): the two buffers and a zero-sized placeholder Data node     *)
(* whose next edge is the Input node holding the upstream are built (the   *)
(* initial state), then next_frame() is called.                            *)
(***************************************************************************)
Placeholder == DataNode(0, 0, 0, "Input")

transform ==
    /\ phase = "new"
    /\ phase' = "live"
    /\ next_frame
    /\ callsNew' = calls'
    /\ pullsNew' = pulls'
    /\ UNCHANGED <<S, inCh, inRate, hintK, durKind, output_channels,
                   frame_size, totalDuration, out, lastResult, nexts>>
    /\ UNCHANGED dropVars
    /\ UNCHANGED chainVars
    /\ UNCHANGED nodeVars
    /\ UNCHANGED threadVars

(***************************************************************************)
(* impl Source for Transform.                                              *)
(***************************************************************************)
current_frame_len ==
    IF current_frame.kind = "Data"
    THEN current_frame.frame_size - position_in_frame
    ELSE 0

channels == IF current_frame.kind = "Data" THEN current_frame.channels ELSE 1

sample_rate ==
    IF current_frame.kind = "Data" THEN current_frame.sampling_rate ELSE 44100

\* total_duration() recomputed from the upstream at every call
total_duration_live == UpstreamDuration(input)

total_duration == totalDuration

(***************************************************************************)
(* Initial states.  The upstream holds the samples 1, 2, ..., L (all       *)
(* different from silence and from each other).                            *)
(***************************************************************************)
Samples(L) == [i \in 1..L |-> i]

\* no stacked adapters
IdleChain ==
    /\ chainS = <<>>
    /\ chainCh = 1
    /\ chainLens = <<1, 1>>
    /\ chain = <<>>
    /\ chainDepth = 0
    /\ chainOut = <<>>
    /\ chainLast = "none yet"
    /\ chainNexts = 0

\* the Mutexes of the plugin: the next edges of the current nodes of the
\* outer adapter (over the mixer) and of the inner adapter (over a source),
\* and the three parameters
Params == {"rotation", "direction", "speed"}
Locks == {"edge_outer", "edge_inner"} \cup Params

\* no threads
IdleThreads ==
    /\ lockOwner = [l \in Locks |-> "free"]
    /\ param = [p \in Params |-> <<0, 0>>]
    /\ completed = [p \in Params |-> 0]
    /\ aprog = <<>>
    /\ areg = 0
    /\ lastRead = [p \in Params |-> <<0, 0>>]
    /\ uprog = <<>>
    /\ ticks = 0
    /\ speed_reset = FALSE

\* no adapter at the level of frame nodes
IdleNodes ==
    /\ cur = 0
    /\ nfpc = "idle"
    /\ nfNew = 0
    /\ localSrc = FALSE
    /\ takeLog = <<>>
    /\ framesDone = 0

InitAdapter ==
    /\ S \in {Samples(L) : L \in 0..MaxLen}
    /\ input = S
    /\ inCh \in 1..MaxCh
    /\ inRate \in {44100, 48000}
    /\ hintK \in 0..MaxHint
    /\ durKind \in {"None", "remaining"}
    /\ output_channels \in 1..MaxCh
    /\ frame_size \in 1..MaxFrameLen
    /\ phase = "new"
    /\ input_buffer = NewBuffer(inCh, frame_size)
    /\ output_buffer = NewBuffer(output_channels, frame_size)
    /\ current_frame = Placeholder
    /\ position_in_frame = 0
    /\ totalDuration = UpstreamDuration(input)
    /\ out = <<>>
    /\ lastResult = "none yet"
    /\ nexts = 0
    /\ calls = 0
    /\ callsNew = 0
    /\ pulls = 0
    /\ pullsNew = 0
    /\ frames = 0
    /\ cbInput = input_buffer
    /\ cbPulled = <<>>
    /\ cbLog = <<>>

\* the destructor's state while the adapter runs: no chain
IdleDrop ==
    /\ chainLen = 0
    /\ heap = <<>>
    /\ dstack = <<>>
    /\ dsteps = 0
    /\ maxDepth = 0
    /\ sharedAt = 0
    /\ poisonedAt = 0
    /\ srcDropped = 0

Init == InitAdapter /\ IdleDrop /\ IdleChain /\ IdleNodes /\ IdleThreads

Next == transform \/ next

Spec == Init /\ [][Next]_vars

(***************************************************************************)
(* Teardown of a frame chain.                                              *)
(*                                                                         *)
(* heap[n] is a frame node behind an Arc: whether it is still allocated,   *)
(* its variant, the node its next edge points at (0: no edge), its strong  *)
(* count, whether the Mutex of its next edge is poisoned, and whether it   *)
(* is an Input node that holds the upstream source (Some(input)).          *)
(*                                                                         *)
(* dstack is the call stack of the teardown, innermost activation last.    *)
(* An activation is Arc::drop of the reference to `node` (fn = "arc") or   *)
(* the destruction of a FrameData value whose next edge points at `node`   *)
(* (fn = "fd": FrameData::drop, then the drop of its fields).              *)
(***************************************************************************)
Node(kind, nxt, rc, poisoned) ==
    [alive |-> TRUE, kind |-> kind, next |-> nxt, rc |-> rc, poisoned |-> poisoned,
     src |-> (kind = "Input")]

ArcAct(n) == [fn |-> "arc", node |-> n, poisoned |-> FALSE, pc |-> "dec"]
FdAct(n, poisoned) == [fn |-> "fd", node |-> n, poisoned |-> poisoned, pc |-> "loop"]

Top == dstack[Len(dstack)]
Pop(stack) == SubSeq(stack, 1, Len(stack) - 1)
SetTop(stack, act) == [stack EXCEPT ![Len(stack)] = act]

\* nesting depth of FrameData destructors in a stack
FdDepth(stack) == Cardinality({i \in 1..Len(stack) : stack[i].fn = "fd"})
Max(a, b) == IF a > b THEN a ELSE b

\* bookkeeping of every teardown step
Step(stack) ==
    /\ dstack' = stack
    /\ dsteps' = dsteps + 1
    /\ maxDepth' = Max(maxDepth, FdDepth(stack))
    /\ UNCHANGED <<chainLen, sharedAt, poisonedAt>>
    /\ UNCHANGED adapterVars
    /\ UNCHANGED chainVars
    /\ UNCHANGED nodeVars
    /\ UNCHANGED threadVars

\* the holder of the head of the chain drops its reference
DropHead ==
    /\ heap # <<>>
    /\ dstack = <<>>
    /\ dsteps = 0
    /\ Step(<<ArcAct(1)>>)
    /\ UNCHANGED <<heap, srcDropped>>

\* Arc::drop: the strong count goes down; the last reference drops the
\* node's contents (a FrameData runs its destructor) and frees the node
ArcDrop ==
    /\ dstack # <<>>
    /\ Top.fn = "arc"
    /\ Top.pc = "dec"
    /\ LET n == Top.node
           left == heap[n].rc - 1
       IN  IF left > 0
           THEN /\ heap' = [heap EXCEPT ![n].rc = left]
                /\ srcDropped' = srcDropped
                /\ Step(Pop(dstack))
           ELSE IF heap[n].kind = "Data"
           THEN /\ heap' = [heap EXCEPT ![n].rc = left]
                /\ srcDropped' = srcDropped
                /\ Step(Append(SetTop(dstack, [Top EXCEPT !.pc = "free"]),
                               FdAct(heap[n].next, heap[n].poisoned)))
           ELSE /\ heap' = [heap EXCEPT ![n].rc = left, ![n].alive = FALSE,
                                        ![n].src = FALSE]
                /\ srcDropped' = srcDropped + (IF heap[n].src THEN 1 ELSE 0)
                /\ Step(Pop(dstack))

\* Arc::drop, after the contents were dropped: the allocation is freed
ArcFree ==
    /\ dstack # <<>>
    /\ Top.fn = "arc"
    /\ Top.pc = "free"
    /\ heap' = [heap EXCEPT ![Top.node].alive = FALSE]
    /\ srcDropped' = srcDropped
    /\ Step(Pop(dstack))

\* FdLoop that overwrites *self without destroying its old value (a
\* ptr::write in place of the assignment): the node taken over is never freed
FdLoopForget ==
    /\ dstack # <<>>
    /\ Top.fn = "fd"
    /\ Top.pc = "loop"
    /\ LET n == Top.node
       IN  IF Top.poisoned \/ heap[n].rc # 1
           THEN /\ UNCHANGED <<heap, srcDropped>>
                /\ Step(SetTop(dstack, [Top EXCEPT !.pc = "fields"]))
           ELSE IF heap[n].kind = "Data"
           THEN /\ heap' = [heap EXCEPT ![n].kind = "End", ![n].next = 0,
                                        ![n].poisoned = FALSE]
                /\ srcDropped' = srcDropped
                /\ Step(SetTop(dstack, FdAct(heap[n].next, heap[n].poisoned)))
           ELSE /\ heap' = [heap EXCEPT ![n].kind = "End", ![n].src = FALSE]
                /\ srcDropped' = srcDropped + (IF heap[n].src THEN 1 ELSE 0)
                /\ Step(SetTop(dstack, [Top EXCEPT !.pc = "fields"]))

\* FdLoop whose loop never runs (FrameData without its Drop impl): the next
\* node is left to the drop of the field
FdLoopNaive ==
    /\ dstack # <<>>
    /\ Top.fn = "fd"
    /\ Top.pc = "loop"
    /\ UNCHANGED <<heap, srcDropped>>
    /\ Step(SetTop(dstack, [Top EXCEPT !.pc = "fields"]))

\* FdLoop that takes the next node over without asking whether it is
\* uniquely owned (no Arc::get_mut test)
FdLoopUnchecked ==
    /\ dstack # <<>>
    /\ Top.fn = "fd"
    /\ Top.pc = "loop"
    /\ LET n == Top.node
       IN  IF Top.poisoned
           THEN /\ UNCHANGED <<heap, srcDropped>>
                /\ Step(SetTop(dstack, [Top EXCEPT !.pc = "fields"]))
           ELSE IF heap[n].kind = "Data"
           THEN /\ heap' = [heap EXCEPT ![n].kind = "End", ![n].next = 0,
                                        ![n].poisoned = FALSE]
                /\ srcDropped' = srcDropped
                /\ Step(Append(SetTop(dstack, FdAct(heap[n].next, heap[n].poisoned)),
                               FdAct(n, FALSE)))
           ELSE /\ heap' = [heap EXCEPT ![n].kind = "End", ![n].src = FALSE]
                /\ srcDropped' = srcDropped + (IF heap[n].src THEN 1 ELSE 0)
                /\ Step(SetTop(dstack, [Top EXCEPT !.pc = "fields"]))

\* FrameData::drop, one pass of its while loop for the value on top
FdLoop ==
    /\ dstack # <<>>
    /\ Top.fn = "fd"
    /\ Top.pc = "loop"
    /\ LET n == Top.node
       IN  IF Top.poisoned \/ heap[n].rc # 1
           THEN \* get_mut on a poisoned Mutex fails, Arc::get_mut on a
                \* shared node gives None: the loop ends
                /\ UNCHANGED <<heap, srcDropped>>
                /\ Step(SetTop(dstack, [Top EXCEPT !.pc = "fields"]))
           ELSE IF heap[n].kind = "Data"
           THEN \* mem::replace(next_ref, Frame::End); *self = next_data:
                \* the old value of *self is destroyed, self continues as
                \* the FrameData taken out of n
                /\ heap' = [heap EXCEPT ![n].kind = "End", ![n].next = 0,
                                        ![n].poisoned = FALSE]
                /\ srcDropped' = srcDropped
                /\ Step(Append(SetTop(dstack, FdAct(heap[n].next, heap[n].poisoned)),
                               FdAct(n, FALSE)))
           ELSE \* the node taken out is Input or End: it is dropped, break
                /\ heap' = [heap EXCEPT ![n].kind = "End", ![n].src = FALSE]
                /\ srcDropped' = srcDropped + (IF heap[n].src THEN 1 ELSE 0)
                /\ Step(SetTop(dstack, [Top EXCEPT !.pc = "fields"]))

\* after FrameData::drop returned: the field `next` is dropped
FdFields ==
    /\ dstack # <<>>
    /\ Top.fn = "fd"
    /\ Top.pc = "fields"
    /\ UNCHANGED <<heap, srcDropped>>
    /\ Step(Append(SetTop(dstack, [Top EXCEPT !.pc = "ret"]), ArcAct(Top.node)))

\* the destruction of the FrameData value returns
FdRet ==
    /\ dstack # <<>>
    /\ Top.fn = "fd"
    /\ Top.pc = "ret"
    /\ UNCHANGED <<heap, srcDropped>>
    /\ Step(Pop(dstack))

(***************************************************************************)
(* Initial states of the teardown: a chain of chainLen Data nodes 1, 2,    *)
(* ..., each the only way to its successor, ending in an Input or an End   *)
(* node; at most one node has a second holder, and at most one next edge   *)
(* has a poisoned Mutex (the adapter panics at most once).                 *)
(***************************************************************************)
Chain(len, tailKind, shared, poisonAt) ==
    [n \in 1..(len + 1) |->
        Node(IF n <= len THEN "Data" ELSE tailKind,
             IF n <= len THEN n + 1 ELSE 0,
             IF n = shared THEN 2 ELSE 1,
             n = poisonAt)]

InitDrop ==
    /\ chainLen \in 0..MaxChain
    /\ sharedAt \in 0..(chainLen + 1)
    /\ poisonedAt \in 0..chainLen
    /\ \E tailKind \in {"Input", "End"} :
           heap = Chain(chainLen, tailKind, sharedAt, poisonedAt)
    /\ dstack = <<>>
    /\ dsteps = 0
    /\ maxDepth = 0
    /\ srcDropped = 0

\* the adapter's state while a chain is torn down: none
IdleAdapter ==
    /\ S = <<>>
    /\ input = <<>>
    /\ inCh = 1
    /\ inRate = 44100
    /\ hintK = 0
    /\ durKind = "None"
    /\ output_channels = 1
    /\ frame_size = 1
    /\ phase = "dropped"
    /\ input_buffer = NewBuffer(1, 1)
    /\ output_buffer = NewBuffer(1, 1)
    /\ current_frame = EndNode
    /\ position_in_frame = 0
    /\ totalDuration = -1
    /\ out = <<>>
    /\ lastResult = "none yet"
    /\ nexts = 0
    /\ calls = 0
    /\ callsNew = 0
    /\ pulls = 0
    /\ pullsNew = 0
    /\ frames = 0
    /\ cbInput = input_buffer
    /\ cbPulled = <<>>
    /\ cbLog = <<>>

InitD == IdleAdapter /\ InitDrop /\ IdleChain /\ IdleNodes /\ IdleThreads

NextD == DropHead \/ ArcDrop \/ ArcFree \/ FdLoop \/ FdFields \/ FdRet

SpecDrop == InitD /\ [][NextD]_vars

(***************************************************************************)
(* Stacked adapters.  A source is a value: a plain upstream                *)
(* (kind = "raw") or a Transform over another source (kind = "transform"), *)
(* with the operations of the trait rodio::Source and of Iterator on it.   *)
(* next() on a source gives the source afterwards and the value returned:  *)
(* a sample, NoneVal for None, PanicVal when the call panicked.            *)
(***************************************************************************)
NoneVal == -1
PanicVal == -2

RawSource(rest, ch, rate, hint) ==
    [kind |-> "raw", rest |-> rest, ch |-> ch, rate |-> rate, hint |-> hint]

\* Source::current_frame_len(): -1 stands for None
SrcCurrentFrameLen(s) ==
    IF s.kind = "raw"
    THEN (IF s.hint = 0 THEN -1 ELSE Min(s.hint, Len(s.rest)))
    ELSE IF s.current_frame.kind = "Data"
         THEN s.current_frame.frame_size - s.position_in_frame
         ELSE 0

\* Source::channels()
SrcChannels(s) ==
    IF s.kind = "raw" THEN s.ch
    ELSE IF s.current_frame.kind = "Data" THEN s.current_frame.channels ELSE 1

\* Source::sample_rate()
SrcSampleRate(s) ==
    IF s.kind = "raw" THEN s.rate
    ELSE IF s.current_frame.kind = "Data"
         THEN s.current_frame.sampling_rate
         ELSE 44100

RECURSIVE SrcNext(_)
RECURSIVE PullLoop(_, _)
RECURSIVE TransformNextFrame(_)

\* input.by_ref().take(n) run to its end: next() is called until n values
\* were delivered or one call returned None (or panicked)
PullLoop(s, n) ==
    IF n = 0
    THEN [src |-> s, vals |-> <<>>, panicked |-> FALSE]
    ELSE LET r == SrcNext(s)
         IN  IF r.val = PanicVal
             THEN [src |-> r.src, vals |-> <<>>, panicked |-> TRUE]
             ELSE IF r.val = NoneVal
             THEN [src |-> r.src, vals |-> <<>>, panicked |-> FALSE]
             ELSE LET more == PullLoop(r.src, n - 1)
                  IN  [src |-> more.src, vals |-> <<r.val>> \o more.vals,
                       panicked |-> more.panicked]

\* Transform::next_frame on the Transform value t
TransformNextFrame(t) ==
    IF t.current_frame.next # "Input"
    THEN [t EXCEPT !.current_frame = EndNode, !.position_in_frame = 0]
    ELSE LET hint == SrcCurrentFrameLen(t.src)
         IN  IF hint = 0
             THEN [t EXCEPT !.current_frame = EndNode,
                            !.output_buffer = function(t.input_buffer, t.output_buffer),
                            !.calls = t.calls + 1,
                            !.position_in_frame = 0]
             ELSE LET chs == SrcChannels(t.src)
                      rate == SrcSampleRate(t.src)
                      p == PullLoop(t.src, TakeCount(hint, t.input_buffer))
                      filled == FillLoop(t.input_buffer, p.vals, 0, 0, chs)
                  IN  IF p.panicked
                      THEN [t EXCEPT !.src = p.src, !.panicked = TRUE]
                      ELSE [t EXCEPT
                              !.src = p.src,
                              !.input_buffer = filled.buf,
                              !.output_buffer = function(filled.buf, t.output_buffer),
                              !.calls = t.calls + 1,
                              !.current_frame =
                                  IF filled.frame = 0
                                  THEN EndNode
                                  ELSE DataNode(chs * filled.frame, chs, rate, "Input"),
                              !.position_in_frame = 0]

\* Iterator::next on a source
SrcNext(s) ==
    IF s.kind = "raw"
    THEN IF s.rest = <<>>
         THEN [src |-> s, val |-> NoneVal]
         ELSE [src |-> [s EXCEPT !.rest = Tail(s.rest)], val |-> Head(s.rest)]
    ELSE IF s.panicked
    THEN [src |-> s, val |-> PanicVal]
    ELSE IF s.current_frame.kind # "Data"
    THEN [src |-> s, val |-> NoneVal]
    ELSE LET row == s.position_in_frame % s.current_frame.channels
             col == s.position_in_frame \div s.current_frame.channels
         IN  IF row \notin DOMAIN s.output_buffer
                \/ col \notin DOMAIN s.output_buffer[row]
             THEN [src |-> [s EXCEPT !.panicked = TRUE], val |-> PanicVal]
             ELSE LET sample == s.output_buffer[row][col]
                      after ==
                          IF s.position_in_frame + 1 >= s.current_frame.frame_size
                          THEN TransformNextFrame(s)
                          ELSE [s EXCEPT !.position_in_frame = s.position_in_frame + 1]
                  IN  [src |-> after,
                       val |-> IF after.panicked THEN PanicVal ELSE sample]

\* transform(input, function, output_channels, frame_size) on a source
TransformNew(src, outCh, len) ==
    TransformNextFrame(
        [kind |-> "transform",
         src |-> src,
         input_buffer |-> NewBuffer(SrcChannels(src), len),
         output_buffer |-> NewBuffer(outCh, len),
         current_frame |-> Placeholder,
         position_in_frame |-> 0,
         calls |-> 0,
         panicked |-> FALSE])

\* the samples a source returns until its first None (or panic), at most
\* `fuel` of them
RECURSIVE Drain(_, _)
Drain(s, fuel) ==
    IF fuel = 0
    THEN <<>>
    ELSE LET r == SrcNext(s)
         IN  IF r.val < 0 THEN <<>> ELSE <<r.val>> \o Drain(r.src, fuel - 1)

(***************************************************************************)
(* Two stacked adapters over one plain upstream, both with the copying     *)
(* callback and the upstream's channel count as output channel count: the  *)
(* inner adapter is built, the outer adapter is built with the inner one   *)
(* as its input, then the consumer pulls the outer adapter.                *)
(***************************************************************************)
\* transform(chain, function, channels, frame length of this level)
transform_chain ==
    /\ chainDepth < 2
    /\ chain' = TransformNew(chain, chainCh, chainLens[chainDepth + 1])
    /\ chainDepth' = chainDepth + 1
    /\ UNCHANGED <<chainS, chainCh, chainLens, chainOut, chainLast, chainNexts>>
    /\ UNCHANGED adapterVars
    /\ UNCHANGED dropVars
    /\ UNCHANGED nodeVars
    /\ UNCHANGED threadVars

\* next() on the outer adapter
next_chain ==
    /\ chainDepth = 2
    /\ chainLast # "Panic"
    /\ chainNexts < MaxNexts
    /\ chainNexts' = chainNexts + 1
    /\ LET r == SrcNext(chain)
       IN  /\ chain' = r.src
           /\ chainLast' = IF r.val = PanicVal THEN "Panic"
                           ELSE IF r.val = NoneVal THEN "None" ELSE "Some"
           /\ chainOut' = IF r.val < 0 THEN chainOut ELSE Append(chainOut, r.val)
    /\ UNCHANGED <<chainS, chainCh, chainLens, chainDepth>>
    /\ UNCHANGED adapterVars
    /\ UNCHANGED dropVars
    /\ UNCHANGED nodeVars
    /\ UNCHANGED threadVars

InitChain ==
    /\ chainS \in {Samples(L) : L \in 0..MaxLen}
    /\ chainCh \in 1..MaxCh
    /\ chainLens \in (1..MaxFrameLen) \X (1..MaxFrameLen)
    /\ \E hint \in 0..MaxHint : \E rate \in {44100, 48000} :
           chain = RawSource(chainS, chainCh, rate, hint)
    /\ chainDepth = 0
    /\ chainOut = <<>>
    /\ chainLast = "none yet"
    /\ chainNexts = 0

InitC == IdleAdapter /\ IdleDrop /\ InitChain /\ IdleNodes /\ IdleThreads

NextC == transform_chain \/ next_chain

SpecChain == InitC /\ [][NextC]_vars

(***************************************************************************)
(* next_frame on the frame nodes of one adapter, statement by statement,   *)
(* with the reference counts of the nodes.  The drops it causes (of the    *)
(* Arc the next edge held, of the Arc current_frame held) run through the  *)
(* teardown actions above.  Whether a materialization gives a Data or an   *)
(* End node depends on the upstream; both are possible at every frame.     *)
(***************************************************************************)
\* next_frame calls made on one adapter
MaxFrames == 5

\* bookkeeping of a statement of next_frame that leaves `stack` to run
NfStep(stack) ==
    /\ dstack' = stack
    /\ UNCHANGED <<chainLen, dsteps, maxDepth, sharedAt, poisonedAt>>
    /\ UNCHANGED adapterVars
    /\ UNCHANGED chainVars
    /\ UNCHANGED threadVars

\* nf_take that reads the upstream through the Input node and leaves it there
nf_take_peek ==
    /\ nfpc = "rest"
    /\ dstack = <<>>
    /\ cur # 0
    /\ framesDone < MaxFrames
    /\ heap[cur].kind = "Data"
    /\ LET i == heap[cur].next
       IN  IF heap[i].kind = "Input" /\ ~heap[i].src
           THEN /\ nfpc' = "panicked"
                /\ UNCHANGED <<heap, nfNew, localSrc, takeLog>>
           ELSE IF heap[i].kind = "Input"
           THEN /\ nfpc' = "taken"
                /\ localSrc' = TRUE
                /\ takeLog' = Append(takeLog, i)
                /\ heap' = heap
                /\ nfNew' = nfNew
           ELSE /\ nfpc' = "built"
                /\ heap' = [heap EXCEPT ![i].rc = @ + 1]
                /\ nfNew' = i
                /\ UNCHANGED <<localSrc, takeLog>>
    /\ UNCHANGED <<cur, framesDone, srcDropped>>
    /\ NfStep(dstack)

\* lines 123-132: the next edge of the current node is locked and, when it
\* points at an Input node, the upstream is taken out of it
\* (input.lock().unwrap().take().unwrap(): an emptied node makes it panic)
nf_take ==
    /\ nfpc = "rest"
    /\ dstack = <<>>
    /\ cur # 0
    /\ framesDone < MaxFrames
    /\ heap[cur].kind = "Data"
    /\ LET i == heap[cur].next
       IN  IF heap[i].kind = "Input" /\ ~heap[i].src
           THEN /\ nfpc' = "panicked"
                /\ UNCHANGED <<heap, nfNew, localSrc, takeLog>>
           ELSE IF heap[i].kind = "Input"
           THEN /\ nfpc' = "taken"
                /\ localSrc' = TRUE
                /\ takeLog' = Append(takeLog, i)
                /\ heap' = [heap EXCEPT ![i].src = FALSE]
                /\ nfNew' = nfNew
           ELSE \* lines 129-130: a Data or End node is there already
                /\ nfpc' = "built"
                /\ heap' = [heap EXCEPT ![i].rc = @ + 1]
                /\ nfNew' = i
                /\ UNCHANGED <<localSrc, takeLog>>
    /\ UNCHANGED <<cur, framesDone, srcDropped>>
    /\ NfStep(dstack)

\* lines 134-173: the new node is built: End (the local `input` is dropped)
\* or Data whose next edge is a new Input node that holds the upstream
nf_build ==
    /\ nfpc = "taken"
    /\ \/ /\ heap' = Append(heap, Node("End", 0, 1, FALSE))
          /\ nfNew' = Len(heap) + 1
          /\ srcDropped' = srcDropped + 1
       \/ /\ heap' = heap \o <<Node("Input", 0, 1, FALSE),
                               Node("Data", Len(heap) + 1, 1, FALSE)>>
          /\ nfNew' = Len(heap) + 2
          /\ srcDropped' = srcDropped
    /\ localSrc' = FALSE
    /\ nfpc' = "built"
    /\ UNCHANGED <<cur, takeLog, framesDone>>
    /\ NfStep(dstack)

\* line 177: *next_frame_ptr = next_frame.clone(): the next edge of the
\* current node points at the new node, the Arc it held is dropped
nf_replace ==
    /\ nfpc = "built"
    /\ LET old == heap[cur].next
       IN  /\ heap' = [heap EXCEPT ![cur].next = nfNew, ![nfNew].rc = @ + 1]
           /\ NfStep(<<ArcAct(old)>>)
    /\ nfpc' = "replaced"
    /\ UNCHANGED <<cur, nfNew, localSrc, takeLog, framesDone, srcDropped>>

\* nf_advance that keeps the Arc current_frame held alive (forgotten
\* instead of dropped)
nf_advance_forget ==
    /\ nfpc = "replaced"
    /\ dstack = <<>>
    /\ cur' = nfNew
    /\ nfNew' = 0
    /\ nfpc' = "rest"
    /\ framesDone' = framesDone + 1
    /\ NfStep(<<>>)
    /\ UNCHANGED <<heap, localSrc, takeLog, srcDropped>>

\* lines 181-182: self.current_frame = next_frame: the local Arc moves into
\* the field, the Arc the field held is dropped
nf_advance ==
    /\ nfpc = "replaced"
    /\ dstack = <<>>
    /\ cur' = nfNew
    /\ nfNew' = 0
    /\ nfpc' = "rest"
    /\ framesDone' = framesDone + 1
    /\ NfStep(<<ArcAct(cur)>>)
    /\ UNCHANGED <<heap, localSrc, takeLog, srcDropped>>

\* the consumer drops the adapter: the Arc current_frame held is dropped
drop_transform ==
    /\ nfpc = "rest"
    /\ dstack = <<>>
    /\ cur # 0
    /\ framesDone >= 1
    /\ cur' = 0
    /\ nfpc' = "dropped"
    /\ NfStep(<<ArcAct(cur)>>)
    /\ UNCHANGED <<heap, nfNew, localSrc, takeLog, framesDone, srcDropped>>

\* lines 37-42: the placeholder Data node and the Input node that holds the
\* upstream; current_frame points at the placeholder
InitNodes ==
    /\ heap = <<Node("Data", 2, 1, FALSE), Node("Input", 0, 1, FALSE)>>
    /\ cur = 1
    /\ nfpc = "rest"
    /\ nfNew = 0
    /\ localSrc = FALSE
    /\ takeLog = <<>>
    /\ framesDone = 0
    /\ chainLen = 0
    /\ dstack = <<>>
    /\ dsteps = 0
    /\ maxDepth = 0
    /\ sharedAt = 0
    /\ poisonedAt = 0
    /\ srcDropped = 0

InitN == IdleAdapter /\ IdleChain /\ InitNodes /\ IdleThreads

NextN ==
    \/ nf_take \/ nf_build \/ nf_replace \/ nf_advance \/ drop_transform
    \/ ArcDrop \/ ArcFree \/ FdLoop \/ FdFields \/ FdRet

SpecNodes == InitN /\ [][NextN]_vars

(***************************************************************************)
(* The plugin's two threads (src/bevy/src/lib.rs).  The audio thread pulls *)
(* the outer adapter (built in SteamAudioPlugin::build over the mixer);    *)
(* materializing one of its frames pulls the sources of the mixer, each an *)
(* inner adapter built in create_source behind a periodic access.  The     *)
(* update thread runs update_listener_and_source once per tick.  Each      *)
(* thread executes a list of statements: lock and unlock of a Mutex, the   *)
(* copy of a parameter value out of its Mutex and the write of one, each   *)
(* in two halves, and call of and return from a function.                  *)
(***************************************************************************)
\* update ticks
MaxTicks == 2
\* frames of the inner adapter materialized for one frame of the outer one
MaxInner == 1

Instr(op, arg) == [op |-> op, arg |-> arg]

\* f(.. *p.lock().unwrap() ..): the guard lock() returns is a temporary of
\* the statement that holds the call, and is dropped when that statement
\* ends, after f has returned
ReadParam(p, f) ==
    <<Instr("lock", p), Instr("copy_hi", p), Instr("copy_lo", p),
      Instr("call", f), Instr("ret", f), Instr("unlock", p)>>

\* *p.lock().unwrap() = value;
WriteParam(p) ==
    <<Instr("lock", p), Instr("write_hi", p), Instr("write_lo", p),
      Instr("unlock", p)>>

\* one pull of a source that makes the inner adapter materialize a frame:
\* the periodic access (lib.rs 201-203), then next_frame of the inner
\* adapter with the callback of create_source (lib.rs 183-193) run under
\* the lock of the next edge (transform.rs 124-179)
InnerFrame ==
    ReadParam("speed", "set_factor")
    \o <<Instr("lock", "edge_inner"),
         Instr("call", "direct_effect.apply"),
         Instr("ret", "direct_effect.apply")>>
    \o ReadParam("direction", "ambisonics_encode_effect.apply")
    \o <<Instr("unlock", "edge_inner")>>

RECURSIVE Repeat(_, _)
Repeat(prog, k) == IF k = 0 THEN <<>> ELSE prog \o Repeat(prog, k - 1)

\* next_frame of the outer adapter: under the lock of its next edge it
\* pulls the mixer (k frames of the inner adapter) and runs the callback of
\* build (lib.rs 57-70)
OuterFrame(k) ==
    <<Instr("lock", "edge_outer")>>
    \o Repeat(InnerFrame, k)
    \o ReadParam("rotation", "ambisonics_decode_effect.apply")
    \o <<Instr("unlock", "edge_outer")>>

\* update_listener_and_source for one listener and one source with a
\* DopplerEffect
UpdateTick(listenerChanged, transformChanged, reset) ==
    (IF listenerChanged THEN WriteParam("rotation") ELSE <<>>)
    \o (IF transformChanged \/ listenerChanged
        THEN WriteParam("direction") \o WriteParam("speed")
        ELSE IF reset THEN WriteParam("speed") ELSE <<>>)

\* what every step of the audio thread, and of the update thread, leaves alone
AudioLeaves ==
    /\ UNCHANGED <<param, completed, uprog, ticks, speed_reset>>
    /\ UNCHANGED adapterVars
    /\ UNCHANGED dropVars
    /\ UNCHANGED chainVars
    /\ UNCHANGED nodeVars

UpdateLeaves ==
    /\ UNCHANGED <<aprog, areg, lastRead>>
    /\ UNCHANGED adapterVars
    /\ UNCHANGED dropVars
    /\ UNCHANGED chainVars
    /\ UNCHANGED nodeVars

\* the audio thread starts to materialize a frame of the outer adapter
audio_frame ==
    /\ aprog = <<>>
    /\ \E k \in 0..MaxInner : aprog' = OuterFrame(k)
    /\ UNCHANGED <<lockOwner, areg, lastRead>>
    /\ AudioLeaves

\* Mutex::lock that does not wait for the holder
audio_lock_barging ==
    /\ aprog # <<>>
    /\ Head(aprog).op = "lock"
    /\ lockOwner' = [lockOwner EXCEPT ![Head(aprog).arg] = "audio"]
    /\ UNCHANGED <<areg, lastRead>>
    /\ aprog' = Tail(aprog)
    /\ AudioLeaves

\* Mutex::lock: granted when the Mutex is free
audio_lock ==
    /\ aprog # <<>>
    /\ Head(aprog).op = "lock"
    /\ lockOwner[Head(aprog).arg] = "free"
    /\ lockOwner' = [lockOwner EXCEPT ![Head(aprog).arg] = "audio"]
    /\ UNCHANGED <<areg, lastRead>>
    /\ aprog' = Tail(aprog)
    /\ AudioLeaves

\* the value behind the guard is copied out, one half at a time
audio_copy ==
    /\ aprog # <<>>
    /\ Head(aprog).op \in {"copy_hi", "copy_lo"}
    /\ LET p == Head(aprog).arg
       IN  IF Head(aprog).op = "copy_hi"
           THEN /\ areg' = param[p][1]
                /\ lastRead' = lastRead
           ELSE /\ areg' = areg
                /\ lastRead' = [lastRead EXCEPT ![p] = <<areg, param[p][2]>>]
    /\ UNCHANGED lockOwner
    /\ aprog' = Tail(aprog)
    /\ AudioLeaves

\* a function is entered
audio_call ==
    /\ aprog # <<>>
    /\ Head(aprog).op = "call"
    /\ UNCHANGED <<lockOwner, areg, lastRead>>
    /\ aprog' = Tail(aprog)
    /\ AudioLeaves

\* the function returns
audio_ret ==
    /\ aprog # <<>>
    /\ Head(aprog).op = "ret"
    /\ UNCHANGED <<lockOwner, areg, lastRead>>
    /\ aprog' = Tail(aprog)
    /\ AudioLeaves

\* audio_unlock of a guard that was forgotten instead of dropped
audio_unlock_forget ==
    /\ aprog # <<>>
    /\ Head(aprog).op = "unlock"
    /\ UNCHANGED <<lockOwner, areg, lastRead>>
    /\ aprog' = Tail(aprog)
    /\ AudioLeaves

\* a guard is dropped
audio_unlock ==
    /\ aprog # <<>>
    /\ Head(aprog).op = "unlock"
    /\ lockOwner' = [lockOwner EXCEPT ![Head(aprog).arg] = "free"]
    /\ UNCHANGED <<areg, lastRead>>
    /\ aprog' = Tail(aprog)
    /\ AudioLeaves

\* a tick: update_listener_and_source is entered, is_changed() of the
\* listener and of the source as the frame made them
update_tick ==
    /\ uprog = <<>>
    /\ ticks < MaxTicks
    /\ ticks' = ticks + 1
    /\ \E listenerChanged \in BOOLEAN : \E transformChanged \in BOOLEAN :
          /\ uprog' = UpdateTick(listenerChanged, transformChanged, speed_reset)
          /\ speed_reset' = (listenerChanged \/ transformChanged)
    /\ UNCHANGED <<lockOwner, param, completed>>
    /\ UpdateLeaves

update_lock ==
    /\ uprog # <<>>
    /\ Head(uprog).op = "lock"
    /\ lockOwner[Head(uprog).arg] = "free"
    /\ lockOwner' = [lockOwner EXCEPT ![Head(uprog).arg] = "update"]
    /\ UNCHANGED <<param, completed, ticks, speed_reset>>
    /\ uprog' = Tail(uprog)
    /\ UpdateLeaves

\* the assignment through the guard, one half at a time; the n-th write of
\* a parameter writes the value <<n, n>>
update_write ==
    /\ uprog # <<>>
    /\ Head(uprog).op \in {"write_hi", "write_lo"}
    /\ LET p == Head(uprog).arg
       IN  IF Head(uprog).op = "write_hi"
           THEN /\ param' = [param EXCEPT ![p][1] = completed[p] + 1]
                /\ completed' = completed
           ELSE /\ param' = [param EXCEPT ![p][2] = completed[p] + 1]
                /\ completed' = [completed EXCEPT ![p] = @ + 1]
    /\ UNCHANGED <<lockOwner, ticks, speed_reset>>
    /\ uprog' = Tail(uprog)
    /\ UpdateLeaves

update_unlock ==
    /\ uprog # <<>>
    /\ Head(uprog).op = "unlock"
    /\ lockOwner' = [lockOwner EXCEPT ![Head(uprog).arg] = "free"]
    /\ UNCHANGED <<param, completed, ticks, speed_reset>>
    /\ uprog' = Tail(uprog)
    /\ UpdateLeaves

InitThreads ==
    /\ lockOwner = [l \in Locks |-> "free"]
    /\ param = [p \in Params |-> <<0, 0>>]
    /\ completed = [p \in Params |-> 0]
    /\ aprog = <<>>
    /\ areg = 0
    /\ lastRead = [p \in Params |-> <<0, 0>>]
    /\ uprog = <<>>
    /\ ticks = 0
    /\ speed_reset = FALSE

InitT == IdleAdapter /\ IdleDrop /\ IdleChain /\ IdleNodes /\ InitThreads

AudioStep ==
    audio_frame \/ audio_copy \/ audio_call \/ audio_ret \/ audio_unlock

UpdateStep == update_write \/ update_unlock

NextT == AudioStep \/ audio_lock \/ update_tick \/ update_lock \/ UpdateStep

SpecThreads == InitT /\ [][NextT]_vars

\* both threads keep running, and a thread that finds a Mutex free again
\* and again gets it in the end
SpecThreadsFair ==
    /\ SpecThreads
    /\ WF_vars(AudioStep)
    /\ WF_vars(UpdateStep)
    /\ SF_vars(audio_lock)
    /\ SF_vars(update_lock)

(***************************************************************************)
(* Properties of the adapter (checked under Spec).                         *)
(***************************************************************************)
\* the number of next() calls that returned "no more data"
NoneReturns == nexts - Len(out)

\* S followed by silence, at position i
PaddedS(i) == IF i <= Len(S) THEN S[i] ELSE Silence

\* capacity of the input buffer in samples
Capacity == frame_size * inCh

\* C1 (as claimed, for upstreams whose hint is unknown): with equal input and
\* output channel counts and the copying callback, the samples returned so
\* far are a prefix of S followed by silence, and once next() has returned
\* "no more data" all of S has been returned, followed by less than one frame
\* of silence: no sample of S is dropped, duplicated or reordered.
C1_IdentityTransform ==
    (phase = "live" /\ hintK = 0 /\ inCh = output_channels) =>
        /\ \A i \in 1..Len(out) : out[i] = PaddedS(i)
        /\ lastResult = "None" =>
              /\ Len(out) >= Len(S)
              /\ Len(out) - Len(S) < Capacity

\* C2 (as claimed, for upstreams whose hint is unknown): a single-channel
\* upstream of exactly k * frame_length samples, pulled until "no more
\* data", has had the callback invoked exactly k times.
C2_CallbackCount ==
    (phase = "live" /\ hintK = 0 /\ inCh = 1 /\ Len(S) % frame_size = 0
        /\ lastResult = "None") =>
        calls = Len(S) \div frame_size

\* C3 (as claimed): transform() invokes the callback zero times and pulls
\* zero samples from upstream.
C3_LazyConstruction ==
    phase = "live" => (callsNew = 0 /\ pullsNew = 0)

\* ceil(m / n) for n > 0
CeilDiv(m, n) == (m + n - 1) \div n

\* C4 (as claimed, for upstreams whose hint is unknown): for a
\* single-channel upstream, after m < frame_length next() calls the callback
\* has been invoked at most ceil(m / frame_length) times in total,
\* construction included.
C4_LazinessBound ==
    (phase = "live" /\ hintK = 0 /\ inCh = 1 /\ nexts < frame_size) =>
        calls <= CeilDiv(nexts, frame_size)

\* C5 (as claimed, for upstreams whose hint is unknown): for a
\* single-channel upstream of frame_length + r samples (0 < r <
\* frame_length), the input buffer passed to the callback for the
\* second frame holds silence at positions r .. frame_length - 1 of channel 0.
C5_SilencePadding ==
    (hintK = 0 /\ inCh = 1 /\ Len(S) > frame_size /\ Len(S) < 2 * frame_size
        /\ Len(cbLog) >= 2) =>
        \A i \in (Len(S) - frame_size)..(frame_size - 1) :
            cbLog[2][0][i] = Silence

\* C6: with an upstream whose hint is unknown, in every frame handed to the
\* callback the j-th sample pulled for that frame is at
\* input_buffer[j mod C][j div C]; the f-th frame is pulled from upstream
\* positions (f-1) * capacity onwards.
C6_RoundRobin ==
    hintK = 0 =>
        \A f \in 1..Len(cbLog) : \A j \in 0..(Capacity - 1) :
            (f - 1) * Capacity + j + 1 <= Len(S) =>
                cbLog[f][j % inCh][j \div inCh] = S[(f - 1) * Capacity + j + 1]

\* C6 witness: the callback has seen a second frame of a two-channel
\* upstream, with at least two samples for each channel in it.
C6_Witness ==
    /\ hintK = 0
    /\ inCh = 2
    /\ Len(cbLog) >= 2
    /\ Len(cbPulled) >= 4
    /\ frame_size >= 2
    /\ cbLog[2][0][1] = S[Capacity + 3]
    /\ cbLog[2][1][1] = S[Capacity + 4]

\* C7: once next() has returned "no more data", a further step is a next()
\* call that returns "no more data" again and neither pulls from upstream,
\* nor invokes the callback, nor changes the current node, nor panics.
C7_EndAbsorbing ==
    [][(phase = "live" /\ lastResult = "None") =>
          /\ lastResult' = "None"
          /\ phase' = "live"
          /\ UNCHANGED <<input, pulls, calls, frames, current_frame,
                         position_in_frame, out, input_buffer, output_buffer>>]_vars

\* C7 witness: next() has returned "no more data" at least twice.
C7_Witness ==
    /\ phase = "live"
    /\ lastResult = "None"
    /\ NoneReturns >= 2
    /\ current_frame.kind = "End"

\* C10 (as claimed): channels() returns the output channel count passed to
\* transform() in every state of the adapter's life.
C10_ChannelsAttribute ==
    phase = "live" => channels = output_channels

(***************************************************************************)
(* Properties of the teardown (checked under SpecDrop).                    *)
(***************************************************************************)
TeardownDone == dsteps > 0 /\ dstack = <<>>

\* C8: dropping the head of a chain of N uniquely owned Data nodes ending in
\* an Input or End node terminates (the teardown is never stuck and takes a
\* number of steps linear in N) and leaves no node of the chain allocated:
\* the N Data nodes and the tail node are all freed, and the upstream source
\* of an Input tail is dropped once.
C8_TeardownReclaimsAll ==
    sharedAt = 0 =>
        /\ dsteps <= 5 * chainLen + 8
        /\ (dstack # <<>> \/ dsteps = 0) => ENABLED NextD
        /\ TeardownDone =>
              /\ \A n \in DOMAIN heap : ~heap[n].alive /\ heap[n].rc = 0
              /\ srcDropped <= 1

\* C8 witness: the teardown of a chain of three or more uniquely owned Data
\* nodes with an Input tail has finished, every node freed.
C8_Witness ==
    /\ sharedAt = 0
    /\ chainLen >= 3
    /\ TeardownDone
    /\ srcDropped = 1
    /\ \A n \in DOMAIN heap : ~heap[n].alive

\* C9: while a chain is dropped, at most two destructors of FrameData are
\* nested (FrameData::drop and the one entered through `*self = next_data`),
\* one more when a next edge's Mutex is poisoned (entered through the drop of
\* the field), whatever the length of the chain.
C9_BoundedDropDepth ==
    LET limit == IF poisonedAt = 0 THEN 2 ELSE 3
    IN  /\ FdDepth(dstack) <= limit
        /\ maxDepth <= limit

\* C9 witness: a chain of three or more uniquely owned Data nodes has been
\* dropped to the end, with destructors nested (the `*self = next_data`
\* assignment ran inside FrameData::drop).
C9_Witness ==
    /\ sharedAt = 0
    /\ chainLen >= 3
    /\ TeardownDone
    /\ maxDepth >= 2

(***************************************************************************)
(* Further properties of the adapter (checked under Spec).                 *)
(***************************************************************************)
\* C11 (as claimed): sample_rate() returns the upstream's sample rate in
\* every state of the adapter's life, the exhausted state included.
C11_SampleRateAttribute ==
    phase = "live" => sample_rate = inRate

\* C12 (as claimed, for upstreams whose hint is unknown and equal channel
\* counts): when the upstream ends with a short frame of r samples,
\* 0 < r < frame_length * C, that frame is processed and, once next() has
\* returned "no more data", every sample of S has been emitted: none of the
\* r samples is discarded.
C12_UnderReadEmitted ==
    (phase = "live" /\ hintK = 0 /\ inCh = output_channels
        /\ Len(S) % Capacity # 0 /\ lastResult = "None") =>
        /\ frames = CeilDiv(Len(S), Capacity)
        /\ Len(out) >= Len(S)
        /\ \A i \in 1..Len(S) : out[i] = S[i]

\* C14 (as claimed): for every finite upstream the adapter reaches "no more
\* data": no next() call fails to return, after Len(S) + 1 calls the last
\* one has returned "no more data", and with an upstream that supplies no
\* sample the very first call does.
C14_TerminatesOnExhaustion ==
    /\ phase # "panicked"
    /\ (phase = "live" /\ nexts >= Len(S) + 1) => lastResult = "None"
    /\ (phase = "live" /\ Len(S) = 0 /\ nexts >= 1) => lastResult = "None"

\* C16 (as claimed): the next() call that returns the last undrained sample
\* of a frame neither pulls from upstream nor invokes the callback.
C16_NoPrefetchAtBoundary ==
    [][(/\ phase = "live"
        /\ current_frame.kind = "Data"
        /\ position_in_frame + 1 = current_frame.frame_size
        /\ Len(out') = Len(out) + 1) =>
           (calls' = calls /\ pulls' = pulls)]_vars

\* C17 (as claimed): over the whole life of any stream the number of
\* callback invocations equals the number of Data frames produced (a
\* materialization that yields End does not invoke the callback).
C17_CallbackOnlyForFrames ==
    phase = "live" => calls = frames

\* C18 (as claimed): every buffer access is in bounds: no next() call panics
\* on its read of the output buffer, the sample next() is about to read is
\* at a channel below the output channel count and an index below the frame
\* length, and every sample pulled was written at a channel below the input
\* channel count and an index below the frame length.
C18_AccessesInBounds ==
    /\ phase # "panicked"
    /\ \A j \in 0..(Len(cbPulled) - 1) :
          /\ j % inCh \in DOMAIN input_buffer
          /\ j \div inCh \in DOMAIN input_buffer[j % inCh]
    /\ (phase = "live" /\ current_frame.kind = "Data") =>
          /\ position_in_frame % current_frame.channels < output_channels
          /\ position_in_frame \div current_frame.channels < frame_size

\* C19 (as claimed): when the output channel count differs from the input
\* channel count, a processed frame of f sample-frames is emitted as
\* output_channels * f samples, read round-robin over the output channels.
C19_OutputEmission ==
    (phase = "live" /\ inCh # output_channels /\ current_frame.kind = "Data") =>
        /\ current_frame.frame_size = output_channels * (Len(cbPulled) \div inCh)
        /\ current_frame.channels = output_channels

\* C15: after construction and any sequence of next() calls, exhaustion
\* included, total_duration() returns the value the upstream reported when
\* the adapter was constructed, whatever the upstream reports by now.
C15_TotalDurationFrozen ==
    phase # "new" =>
        total_duration = (IF durKind = "None" THEN -1 ELSE Len(S))

\* C15 witness: the adapter is exhausted and its upstream, which reports
\* what it has left, reports another duration than at construction.
C15_Witness ==
    /\ phase = "live"
    /\ lastResult = "None"
    /\ durKind = "remaining"
    /\ UpstreamDuration(input) # Len(S)
    /\ total_duration = Len(S)

\* what the adapter emits over the same upstream when the upstream's hint
\* is unknown
EmittedWithoutHint ==
    Drain(TransformNew(RawSource(S, inCh, inRate, 0), output_channels, frame_size),
          Len(S) + 1)

\* C20 (as claimed): with the copying callback and equal channel counts, the
\* samples emitted over an upstream that reports positive hints are those
\* emitted over the same upstream with an unknown hint: what was returned so
\* far is a prefix of them, and at "no more data" all of them were returned.
C20_HintIndependence ==
    (phase = "live" /\ hintK >= 1 /\ inCh = output_channels) =>
        /\ Len(out) <= Len(EmittedWithoutHint)
        /\ \A i \in 1..Len(out) : out[i] = EmittedWithoutHint[i]
        /\ lastResult = "None" => Len(out) = Len(EmittedWithoutHint)

(***************************************************************************)
(* Properties of two stacked adapters (checked under SpecChain).           *)
(***************************************************************************)
\* the plain upstream under the two adapters
ChainUpstream == chain.src.src

\* C13 (as claimed, for upstreams whose hint is unknown): the outer of two
\* stacked copying adapters returns exactly the upstream sequence S, for
\* every pair of frame lengths: what it has returned so far is a prefix of
\* S, and when it reports "no more data" it has returned all of S.
C13_ChainComposition ==
    (chainDepth = 2 /\ ChainUpstream.hint = 0) =>
        /\ chainLast # "Panic"
        /\ Len(chainOut) <= Len(chainS)
        /\ \A i \in 1..Len(chainOut) : chainOut[i] = chainS[i]
        /\ chainLast = "None" => chainOut = chainS


\* C21: one materialization (one run of the callback) pulls at most
\* frame_length * input_channels samples from upstream, what it pulls is
\* what the upstream loses, with an unknown hint it pulls exactly
\* min(frame_length * input_channels, samples the upstream still has), and a
\* step (transform() or one next() call) materializes at most once.
C21_UpstreamPullBound ==
    [][/\ calls' - calls \in {0, 1}
       /\ pulls' - pulls <= Capacity
       /\ pulls' - pulls = Len(input) - Len(input')
       /\ calls' = calls => pulls' = pulls
       /\ (hintK = 0 /\ calls' = calls + 1) =>
             pulls' - pulls = Min(Capacity, Len(input))]_vars

\* C21 witness: with an unknown hint, a full frame was pulled and then a
\* short final read of a two-channel upstream took what was left, less than
\* the capacity.
C21_Witness ==
    /\ phase = "live"
    /\ hintK = 0
    /\ inCh = 2
    /\ calls >= 2
    /\ pulls = Len(S)
    /\ Len(cbPulled) > 0
    /\ Len(cbPulled) < Capacity


\* C22 (as claimed): a next() call made while the current Data frame has at
\* least two undrained samples returns the sample at the cursor, advances
\* the cursor by exactly one, and leaves the upstream, the two buffers, the
\* current node and the number of callback invocations unchanged.
C22_FastPathNoSideEffects ==
    [][(/\ phase = "live"
        /\ current_frame.kind = "Data"
        /\ current_frame.frame_size - position_in_frame >= 2
        /\ nexts' = nexts + 1) =>
           /\ phase' = "live"
           /\ lastResult' = "Some"
           /\ out' = Append(out,
                  output_buffer[position_in_frame % current_frame.channels]
                               [position_in_frame \div current_frame.channels])
           /\ position_in_frame' = position_in_frame + 1
           /\ UNCHANGED <<input, input_buffer, output_buffer, current_frame,
                          calls, pulls, frames>>]_vars


(***************************************************************************)
(* Further properties of the teardown (checked under SpecDrop).            *)
(***************************************************************************)
\* C25: when the chain holds a node another holder references too, the
\* teardown stops there: that node and every node after it stay allocated
\* with their variant and next edge as they were (no Data node is
\* overwritten with End, the upstream source of an Input tail is not
\* dropped), the count of the shared node goes from 2 to 1 and the counts
\* of the nodes after it stay 1.
C25_TeardownStopsAtShared ==
    sharedAt >= 1 =>
        /\ \A n \in sharedAt..(chainLen + 1) :
              /\ heap[n].alive
              /\ n <= chainLen => heap[n].kind = "Data"
              /\ n = chainLen + 1 => heap[n].kind \in {"Input", "End"}
              /\ heap[n].next = (IF n <= chainLen THEN n + 1 ELSE 0)
              /\ heap[n].poisoned = (n = poisonedAt)
              /\ n = sharedAt => heap[n].rc \in {1, 2}
              /\ n # sharedAt => heap[n].rc = 1
        /\ srcDropped = 0
        /\ TeardownDone =>
              /\ heap[sharedAt].rc = 1
              /\ \A n \in 1..(sharedAt - 1) : ~heap[n].alive

\* C25 witness: the destructor took over at least one node, reached the
\* shared third node of a chain and stopped; the teardown has finished with
\* the nodes before the shared one freed and the shared one still allocated.
C25_Witness ==
    /\ sharedAt = 3
    /\ chainLen >= 3
    /\ TeardownDone
    /\ maxDepth >= 2
    /\ ~heap[1].alive
    /\ ~heap[2].alive
    /\ heap[3].alive
    /\ heap[3].rc = 1
    /\ heap[4].alive


(***************************************************************************)
(* Shape of the adapter at rest (checked under Spec).                      *)
(***************************************************************************)
\* C29: after construction and between calls the current node is Data or
\* End, never Input and never the zero-sized placeholder of transform(); a
\* Data node has channels >= 1, a frame_size that is a positive multiple of
\* channels and at most frame_length * input_channels, and the cursor
\* satisfies 0 <= position_in_frame < frame_size (so the modulo and the
\* division by channels are defined and no unreachable!() arm is taken).
C29_CursorNodeShape ==
    phase # "new" =>
        /\ current_frame.kind \in {"Data", "End"}
        /\ current_frame # Placeholder
        /\ current_frame.kind = "Data" =>
              /\ current_frame.channels >= 1
              /\ current_frame.frame_size >= 1
              /\ current_frame.frame_size % current_frame.channels = 0
              /\ current_frame.frame_size <= frame_size * inCh
              /\ position_in_frame >= 0
              /\ position_in_frame < current_frame.frame_size

\* C29 witness: the adapter rests inside the short last frame of a
\* two-channel upstream, the cursor past the frame's first sample.
C29_Witness ==
    /\ phase = "live"
    /\ inCh = 2
    /\ current_frame.kind = "Data"
    /\ current_frame.frame_size < frame_size * inCh
    /\ position_in_frame >= 1
    /\ calls >= 2


\* C30 (as claimed): current_frame_len() returns Some(0) exactly when the
\* adapter is exhausted, and otherwise Some(n) with n >= 1 the number of
\* further next() calls that return a sample of the current frame before
\* the current node changes: a next() call made at Some(n) returns a sample;
\* for n >= 2 it leaves the current node in place with Some(n - 1), for
\* n = 1 it moves to the next node; a call made at Some(0) returns "no more
\* data".
C30_FrameLenExact ==
    [][(phase = "live" /\ nexts' = nexts + 1) =>
          /\ current_frame_len >= 0
          /\ current_frame_len = 0 <=> current_frame.kind = "End"
          /\ current_frame_len = 0 => (lastResult' = "None" /\ out' = out)
          /\ current_frame_len >= 1 =>
                /\ phase' = "live"
                /\ lastResult' = "Some"
                /\ Len(out') = Len(out) + 1
          /\ current_frame_len >= 2 =>
                /\ current_frame' = current_frame
                /\ calls' = calls
                /\ current_frame_len' = current_frame_len - 1
          /\ current_frame_len = 1 =>
                /\ calls' = calls + 1
                /\ position_in_frame' = 0]_vars


(***************************************************************************)
(* Properties of the frame nodes of one adapter (checked under SpecNodes). *)
(***************************************************************************)
\* the nodes that are allocated, and those that hold the upstream source
AliveNodes == {n \in DOMAIN heap : heap[n].alive}
SourceHolders == {n \in AliveNodes : heap[n].src}

\* the Input nodes the upstream was taken out of
TakenFrom == {takeLog[i] : i \in DOMAIN takeLog}

\* C23: at most one owner holds the upstream source (an Input node or the
\* local of next_frame); the take in next_frame never finds an emptied
\* Input node; the source is taken out of a node once, the node stays empty
\* and, once line 177 has run, no next edge points at it any more: the
\* current node's next edge points at a Data or End node.
C23_SingleOwnership ==
    /\ Cardinality(SourceHolders) + (IF localSrc THEN 1 ELSE 0) <= 1
    /\ \A n \in SourceHolders : heap[n].kind = "Input"
    /\ nfpc # "panicked"
    /\ \A i, j \in DOMAIN takeLog : takeLog[i] = takeLog[j] => i = j
    /\ \A n \in TakenFrom : ~heap[n].src
    /\ nfpc \in {"rest", "replaced", "dropped"} =>
          \A n \in AliveNodes : heap[n].next \notin TakenFrom
    /\ nfpc = "replaced" => heap[heap[cur].next].kind \in {"Data", "End"}

\* C23 witness: the upstream is out of the third Input node that held it,
\* in the local of next_frame.
C23_Witness ==
    /\ nfpc = "taken"
    /\ localSrc
    /\ Len(takeLog) = 3
    /\ SourceHolders = {}
    /\ heap[takeLog[3]].alive

\* C24: every allocated frame node has a reference count of at most 2; at
\* most four nodes are allocated at any moment, whatever the number of
\* frames processed; between next_frame calls only the current node and the
\* Input node of its next edge are allocated, each counted once (every node
\* the adapter advanced past is freed); a dropped adapter leaves none.
C24_BoundedChain ==
    /\ \A n \in AliveNodes : heap[n].rc <= 2
    /\ Cardinality(AliveNodes) <= 4
    /\ (nfpc = "rest" /\ dstack = <<>>) =>
          /\ AliveNodes = {cur} \cup (IF heap[cur].kind = "Data"
                                      THEN {heap[cur].next} ELSE {})
          /\ \A n \in AliveNodes : heap[n].rc = 1
    /\ (nfpc = "dropped" /\ dstack = <<>>) => AliveNodes = {}

\* C24 witness: four frames were processed, the adapter rests on a Data
\* node with two nodes allocated out of the ten built so far.
C24_Witness ==
    /\ nfpc = "rest"
    /\ dstack = <<>>
    /\ framesDone = 4
    /\ heap[cur].kind = "Data"
    /\ Len(heap) = 10
    /\ Cardinality(AliveNodes) = 2


(***************************************************************************)
(* Properties of the plugin's threads (checked under SpecThreads and       *)
(* SpecThreadsFair).                                                       *)
(***************************************************************************)
\* the apply calls of the effects (the DSP work)
Effects == {"direct_effect.apply", "ambisonics_encode_effect.apply",
            "ambisonics_decode_effect.apply"}

\* the audio thread is inside an effect's apply call
AudioInApply ==
    aprog # <<>> /\ Head(aprog).op = "ret" /\ Head(aprog).arg \in Effects

\* a thread stands at a lock() call, and waits there
AudioWants(l) == aprog # <<>> /\ Head(aprog) = Instr("lock", l)
UpdateWants(l) == uprog # <<>> /\ Head(uprog) = Instr("lock", l)
AudioWaits(l) == AudioWants(l) /\ lockOwner[l] # "free"
UpdateWaits(l) == UpdateWants(l) /\ lockOwner[l] # "free"

\* C26 (as claimed): the audio thread holds a parameter lock only while it
\* copies the value out: while it is inside an effect's apply call it holds
\* no parameter lock.
C26_ShortCriticalSections ==
    AudioInApply => \A p \in Params : lockOwner[p] # "audio"

\* C27: every value the callback has read for a parameter is the initial
\* value or the value of a completed write, both halves from the same
\* write, and the values read for a parameter never go back to an older
\* write.
C27_OldOrNewReads ==
    /\ [](\A p \in Params :
            /\ lastRead[p][1] = lastRead[p][2]
            /\ lastRead[p][1] \in 0..completed[p])
    /\ [][\A p \in Params : lastRead'[p][1] >= lastRead[p][1]]_vars

\* C27 witness: the callback has read the first value written to the
\* direction; the update thread is half way through writing the second (the
\* halves behind the Mutex differ) while the audio thread stands at the
\* lock() of its next read.
C27_Witness ==
    /\ lastRead["direction"] = <<1, 1>>
    /\ param["direction"] = <<2, 1>>
    /\ lockOwner["direction"] = "update"
    /\ AudioWaits("direction")

\* a thread stands at a lock() call; it leaves the call only by being
\* granted the Mutex
AudioAtLock == aprog # <<>> /\ Head(aprog).op = "lock"
UpdateAtLock == uprog # <<>> /\ Head(uprog).op = "lock"

====
